---------------------------- MODULE Spec2Model ----------------------------
(***************************************************************************)
(* State-machine model of the CO2Dashboard React component                 *)
(* (llm-efficiency-dashboard/src/App.js).                                  *)
(*                                                                         *)
(* The component's state is its four useState cells and the pending run   *)
(* of its useEffect.  What it renders is a pure function of that state    *)
(* and is modelled by operators.  JavaScript                               *)
(* numbers are IEEE-754 doubles: products, quotients and toFixed(1) are    *)
(* computed here on 53-bit significands, so that a displayed figure is the *)
(* one the browser shows.                                                  *)
(*                                                                         *)
(* The upload workflow, of which App.js holds the markup only, is modelled *)
(* from section 4.4 of the specification and has its own specifications,   *)
(* SpecUpload and FairSpecUpload.                                          *)
(***************************************************************************)
EXTENDS Integers, Sequences, FiniteSets, TLC

(***************************************************************************)
(* Natural numbers of any size: little-endian sequences of 15-bit limbs    *)
(* without leading zero limbs (<<>> is 0).  TLC's integers are 32 bits; a  *)
(* product of two limbs plus a carry stays below 2^31.                     *)
(***************************************************************************)
LimbBits == 5 * 3

LimbBase == 2 ^ LimbBits

Pow2(n) == 2 ^ n

RECURSIVE BigNorm(_)
BigNorm(a) ==
    IF a = <<>> THEN <<>>
    ELSE IF a[Len(a)] = 0 THEN BigNorm(SubSeq(a, 1, Len(a) - 1))
    ELSE a

RECURSIVE BigFromInt(_)
BigFromInt(n) ==
    IF n = 0 THEN <<>>
    ELSE <<n % LimbBase>> \o BigFromInt(n \div LimbBase)

RECURSIVE BigToInt(_)
BigToInt(a) ==
    IF a = <<>> THEN 0
    ELSE a[1] + LimbBase * BigToInt(Tail(a))

RECURSIVE BigMulCarry(_, _, _)
BigMulCarry(a, k, carry) ==
    IF a = <<>> THEN BigFromInt(carry)
    ELSE LET t == a[1] * k + carry
         IN  <<t % LimbBase>> \o BigMulCarry(Tail(a), k, t \div LimbBase)

\* a * k for 0 <= k < 2^15
BigMulSmall(a, k) == BigNorm(BigMulCarry(a, k, 0))

RECURSIVE BigAddCarry(_, _, _)
BigAddCarry(a, b, carry) ==
    IF a = <<>> /\ b = <<>> THEN BigFromInt(carry)
    ELSE LET x == IF a = <<>> THEN 0 ELSE a[1]
             y == IF b = <<>> THEN 0 ELSE b[1]
             t == x + y + carry
         IN  <<t % LimbBase>>
               \o BigAddCarry(IF a = <<>> THEN <<>> ELSE Tail(a),
                              IF b = <<>> THEN <<>> ELSE Tail(b),
                              t \div LimbBase)

BigAdd(a, b) == BigNorm(BigAddCarry(a, b, 0))

BigInc(a) == BigAdd(a, <<1>>)

\* a * 2^(15 n)
BigShlLimbs(a, n) ==
    IF a = <<>> THEN <<>> ELSE [i \in 1..n |-> 0] \o a

RECURSIVE BigMul(_, _)
BigMul(a, b) ==
    IF b = <<>> THEN <<>>
    ELSE BigAdd(BigMulSmall(a, b[1]), BigShlLimbs(BigMul(a, Tail(b)), 1))

\* [q, r] with a = q * d + r, 0 <= r < d, for 0 < d < 2^16; the limbs are
\* taken from the most significant one down
RECURSIVE BigDivRem(_, _)
BigDivRem(a, d) ==
    IF a = <<>> THEN [q |-> <<>>, r |-> 0]
    ELSE LET hi == BigDivRem(Tail(a), d)
             t  == hi.r * LimbBase + a[1]
         IN  [q |-> <<t \div d>> \o hi.q, r |-> t % d]

BigDivSmall(a, d) ==
    LET x == BigDivRem(a, d) IN [q |-> BigNorm(x.q), r |-> x.r]

RECURSIVE IntBitLen(_)
IntBitLen(n) == IF n = 0 THEN 0 ELSE 1 + IntBitLen(n \div 2)

BigBitLen(a) ==
    IF a = <<>> THEN 0
    ELSE (Len(a) - 1) * LimbBits + IntBitLen(a[Len(a)])

\* bit i of a, bit 0 the least significant
BigBit(a, i) ==
    LET k == (i \div LimbBits) + 1
    IN  IF i < 0 \/ k > Len(a) THEN 0
        ELSE (a[k] \div Pow2(i % LimbBits)) % 2

\* whether a bit of a below bit i is set
BigLowNonzero(a, i) ==
    IF i <= 0 THEN FALSE
    ELSE LET k == i \div LimbBits
         IN  \/ \E j \in 1..Len(a) : j <= k /\ a[j] # 0
             \/ k + 1 <= Len(a) /\ a[k + 1] % Pow2(i % LimbBits) # 0

\* floor(a / 2^s)
BigShr(a, s) ==
    LET drop == s \div LimbBits
        b    == s % LimbBits
        rest == IF drop >= Len(a) THEN <<>> ELSE SubSeq(a, drop + 1, Len(a))
    IN  BigNorm([i \in 1..Len(rest) |->
                   (rest[i] \div Pow2(b))
                   + (IF i < Len(rest) THEN rest[i + 1] % Pow2(b) ELSE 0)
                     * Pow2(LimbBits - b)])

\* a * 2^s
BigShl(a, s) ==
    BigShlLimbs(BigMulSmall(a, Pow2(s % LimbBits)), s \div LimbBits)

(***************************************************************************)
(* JavaScript Numbers.  A positive double is [nan |-> FALSE, m, e] with    *)
(* value m * 2^e and m a significand of exactly 53 bits; zero has m = <<>>.*)
(* The dashboard computes with positive finite values only; NaN is what    *)
(* parseFloat gives for a string that does not start with a number.        *)
(***************************************************************************)
SignificandBits == 50 + 3

DZero == [nan |-> FALSE, m |-> <<>>, e |-> 0]

DNaN == [nan |-> TRUE, m |-> <<>>, e |-> 0]

\* The double nearest to (N + f) * 2^e, ties to even, where 0 <= f < 1 and
\* sticky says whether f > 0.  With sticky, N holds at least 54 bits.
RoundToDouble(N, e, sticky) ==
    LET L == BigBitLen(N)
    IN  IF N = <<>> THEN DZero
        ELSE IF L <= SignificandBits
        THEN [nan |-> FALSE, m |-> BigShl(N, SignificandBits - L),
              e |-> e - (SignificandBits - L)]
        ELSE LET s     == L - SignificandBits
                 q     == BigShr(N, s)
                 guard == BigBit(N, s - 1) = 1
                 st    == sticky \/ BigLowNonzero(N, s - 1)
                 up    == guard /\ (st \/ BigBit(q, 0) = 1)
                 q1    == IF up THEN BigInc(q) ELSE q
             IN  IF BigBitLen(q1) > SignificandBits
                 THEN [nan |-> FALSE, m |-> BigShr(q1, 1), e |-> e + s + 1]
                 ELSE [nan |-> FALSE, m |-> q1, e |-> e + s]

\* The Number a decimal literal n / d denotes (d a power of ten below 2^16):
\* the double nearest to the literal's value.
DFromDecimal(n, d) ==
    LET x == BigDivSmall(BigShlLimbs(BigFromInt(n), 5), d)
    IN  RoundToDouble(x.q, -(5 * LimbBits), x.r # 0)

\* x * y
DMul(x, y) ==
    IF x.nan \/ y.nan THEN DNaN
    ELSE RoundToDouble(BigMul(x.m, y.m), x.e + y.e, FALSE)

\* x / d for an integer 0 < d < 2^16: the correctly rounded quotient
DDivInt(x, d) ==
    IF x.nan THEN DNaN
    ELSE LET y == BigDivSmall(BigShlLimbs(x.m, 2), d)
         IN  RoundToDouble(y.q, x.e - 2 * LimbBits, y.r # 0)

\* x < y
DLess(x, y) ==
    IF x.nan \/ y.nan THEN FALSE
    ELSE IF y.m = <<>> THEN FALSE
    ELSE IF x.m = <<>> THEN TRUE
    ELSE IF x.e # y.e THEN x.e < y.e
    ELSE \E i \in 1..Len(x.m) :
            /\ x.m[i] < y.m[i]
            /\ \A j \in (i + 1)..Len(x.m) : x.m[j] = y.m[j]

\* Number.prototype.toFixed(1): the integer n for which n / 10 - x is as
\* close to zero as possible and, of two such n, the larger; the string is n
\* with a point before its last digit, given here as n (tenths).  "NaN" for
\* NaN.
toFixed1(x) ==
    IF x.nan THEN "NaN"
    ELSE LET t == BigMulSmall(x.m, 10)
         IN  IF x.e >= 0 THEN BigToInt(BigShl(t, x.e))
             ELSE BigToInt(BigShr(t, -x.e)) + BigBit(t, -x.e - 1)

(***************************************************************************)
(* Strings the code computes with are sequences of one-character strings   *)
(* ('25%' is <<"2", "5", "%">>); strings it only displays are TLA+ strings.*)
(***************************************************************************)
Digits == <<"0", "1", "2", "3", "4", "5", "6", "7", "8", "9">>

IsDigit(c) == \E i \in 1..Len(Digits) : Digits[i] = c

DigitValue(c) == (CHOOSE i \in 1..Len(Digits) : Digits[i] = c) - 1

\* the longest prefix of s made of decimal digits
RECURSIVE DigitPrefix(_)
DigitPrefix(s) ==
    IF s = <<>> \/ ~IsDigit(s[1]) THEN <<>>
    ELSE <<s[1]>> \o DigitPrefix(Tail(s))

RECURSIVE DigitsToInt(_, _)
DigitsToInt(s, acc) ==
    IF s = <<>> THEN acc
    ELSE DigitsToInt(Tail(s), 10 * acc + DigitValue(s[1]))

\* parseFloat on a string: the Number of the longest prefix that is a
\* decimal literal (digits, then optionally a point and digits); what
\* follows it, such as '%', is ignored; NaN when there is no such prefix.
parseFloat(s) ==
    LET ip   == DigitPrefix(s)
        rest == SubSeq(s, Len(ip) + 1, Len(s))
        fp   == IF rest # <<>> /\ rest[1] = "."
                THEN DigitPrefix(Tail(rest)) ELSE <<>>
    IN  IF ip = <<>> /\ fp = <<>> THEN DNaN
        ELSE DFromDecimal(DigitsToInt(ip \o fp, 0), 10 ^ Len(fp))

(***************************************************************************)
(* A model record's co2 is a decimal literal of the source (45.2); it is   *)
(* kept as the literal's count of 1/10000 kg, and NumberValue is the       *)
(* Number that literal denotes.  parseFloat on a Number converts it to its *)
(* shortest round-tripping string and parses that: the same Number.        *)
(***************************************************************************)
CO2Scale == 10 ^ 4

NumberValue(co2) == DFromDecimal(co2, CO2Scale)

Null == [null |-> TRUE]

Tabs == <<"overview", "models", "optimizations", "analytics">>

InitialModels ==
    << [id |-> 1, name |-> "BERT-Base", type |-> "NLP", co2 |-> 452000,
        status |-> "analyzed", lastRun |-> "2024-12-01"],
       [id |-> 2, name |-> "GPT-3.5", type |-> "Language", co2 |-> 2347000,
        status |-> "analyzing", lastRun |-> "2024-12-02"],
       [id |-> 3, name |-> "ResNet-50", type |-> "Vision", co2 |-> 783000,
        status |-> "analyzed", lastRun |-> "2024-11-29"],
       [id |-> 4, name |-> "YOLO-v8", type |-> "Detection", co2 |-> 1569000,
        status |-> "optimized", lastRun |-> "2024-12-01"] >>

Opt(t, r, i, d, desc) ==
    [technique |-> t, reduction |-> r, impact |-> i, difficulty |-> d,
     description |-> desc]

baseOptimizations ==
    [NLP |-> <<
        Opt("Model Pruning", <<"2", "5", "%">>, "High", "Medium",
            "Remove redundant attention heads and layers"),
        Opt("Quantization", <<"3", "5", "%">>, "High", "Low",
            "Convert to INT8 precision for faster inference"),
        Opt("Knowledge Distillation", <<"4", "5", "%">>, "Medium", "High",
            "Create smaller student model from BERT"),
        Opt("Layer Freezing", <<"2", "0", "%">>, "Low", "Low",
            "Freeze early transformer layers") >>,
     Language |-> <<
        Opt("Model Pruning", <<"3", "0", "%">>, "High", "High",
            "Structured pruning of transformer blocks"),
        Opt("Quantization", <<"4", "0", "%">>, "High", "Medium",
            "Mixed precision optimization"),
        Opt("Knowledge Distillation", <<"5", "0", "%">>, "Medium", "High",
            "Distill to smaller architecture"),
        Opt("Gradient Checkpointing", <<"1", "5", "%">>, "Low", "Low",
            "Reduce memory usage during training") >>,
     Vision |-> <<
        Opt("Channel Pruning", <<"3", "5", "%">>, "High", "Medium",
            "Remove less important CNN channels"),
        Opt("Quantization", <<"4", "0", "%">>, "High", "Low",
            "Post-training quantization"),
        Opt("MobileNet Architecture", <<"6", "0", "%">>, "Medium", "High",
            "Replace with efficient architecture"),
        Opt("Input Resolution Reduction", <<"2", "5", "%">>, "Low", "Low",
            "Optimize input image size") >>,
     Detection |-> <<
        Opt("Model Pruning", <<"2", "8", "%">>, "High", "Medium",
            "Prune detection head layers"),
        Opt("Quantization", <<"3", "2", "%">>, "High", "Low",
            "Quantize backbone and neck"),
        Opt("NAS Optimization", <<"4", "5", "%">>, "High", "High",
            "Neural architecture search"),
        Opt("Anchor Optimization", <<"1", "8", "%">>, "Low", "Low",
            "Reduce number of anchor boxes") >>]

\* getModelOptimizations without the fallback to the NLP list
getModelOptimizations_NoFallback(model) ==
    IF model = Null THEN <<>>
    ELSE IF model.type \in DOMAIN baseOptimizations
         THEN baseOptimizations[model.type]
         ELSE <<>>

\* getModelOptimizations that reads no category: every model gets the NLP
\* list
getModelOptimizations_IgnoresType(model) ==
    IF model = Null THEN <<>> ELSE baseOptimizations["NLP"]

\* if (!model) return []; return baseOptimizations[model.type] ||
\* baseOptimizations['NLP'].  A type that is no key of the object reads as
\* undefined, which is falsy.
getModelOptimizations(model) ==
    IF model = Null THEN <<>>
    ELSE IF model.type \in DOMAIN baseOptimizations
         THEN baseOptimizations[model.type]
         ELSE baseOptimizations["NLP"]

Point(n, tr, inf, tot) ==
    [name |-> n, training |-> tr, inference |-> inf, total |-> tot]

\* emissionData with a total that is not the sum of its parts
emissionData_BadTotal ==
    << Point("Jan", 120, 80, 200), Point("Feb", 140, 75, 215),
       Point("Mar", 110, 85, 185), Point("Apr", 95, 70, 165),
       Point("May", 130, 90, 220), Point("Jun", 85, 65, 150) >>

emissionData ==
    << Point("Jan", 120, 80, 200), Point("Feb", 140, 75, 215),
       Point("Mar", 110, 85, 195), Point("Apr", 95, 70, 165),
       Point("May", 130, 90, 220), Point("Jun", 85, 65, 150) >>

\* co2 and accuracy are the literals' counts of tenths (234.7 is 2347)
Scenario(n, c, a, en) == [name |-> n, co2 |-> c, accuracy |-> a, energy |-> en]

\* modelComparison with the Pruned and Quantized rows exchanged
modelComparison_Swapped ==
    << Scenario("Original", 2347, 921, 450),
       Scenario("Quantized", 1562, 915, 298), Scenario("Pruned", 1873, 918, 360),
       Scenario("Distilled", 1348, 909, 267) >>

modelComparison ==
    << Scenario("Original", 2347, 921, 450), Scenario("Pruned", 1873, 918, 360),
       Scenario("Quantized", 1562, 915, 298),
       Scenario("Distilled", 1348, 909, 267) >>

\* pieData whose Infrastructure slice carries no emissions
pieData_NoInfrastructure ==
    << [name |-> "Training", value |-> 65, color |-> "#8884d8"],
       [name |-> "Inference", value |-> 25, color |-> "#82ca9d"],
       [name |-> "Infrastructure", value |-> 0, color |-> "#ffc658"] >>

pieData ==
    << [name |-> "Training", value |-> 65, color |-> "#8884d8"],
       [name |-> "Inference", value |-> 25, color |-> "#82ca9d"],
       [name |-> "Infrastructure", value |-> 10, color |-> "#ffc658"] >>

(***************************************************************************)
(* The component's state.  lastEvent is a history variable: the handler    *)
(* that ran last, with what it was given and, for Apply, the text alert()  *)
(* showed.  The last six variables are the state of the upload workflow,   *)
(* which App.js only draws (the Upload Section of renderModels has no      *)
(* handler); they follow section 4.4 of the specification.                 *)
(***************************************************************************)
VARIABLES
    activeTab,                  \* useState('overview')
    selectedModel,              \* useState(null)
    selectedOptimizationModel,  \* useState(null)
    models,                     \* useState([...])
    effectPending,              \* the useEffect is scheduled to run
    lastEvent,
    uploadRequest,              \* the upload form: modelName, version, file
    workflow,                   \* Idle, Submitting, Succeeded or Failed
    network,                    \* the upload calls in flight
    sent,                       \* how many upload calls were issued
    notification,               \* the transient status message, or Null
    displayTimer                \* time left until the notification goes

vars == <<activeTab, selectedModel, selectedOptimizationModel, models,
          effectPending, lastEvent, uploadRequest, workflow, network, sent,
          notification, displayTimer>>

uploadVars ==
    <<uploadRequest, workflow, network, sent, notification, displayTimer>>

(***************************************************************************)
(* What the component renders: a function of the state.                    *)
(***************************************************************************)

\* EstimatedReduction with the figure cut after its first decimal instead of
\* rounded
EstimatedReduction_Truncated(model, opt) ==
    LET x == DDivInt(DMul(NumberValue(model.co2), parseFloat(opt.reduction)),
                     100)
    IN  BigToInt(BigShr(BigMulSmall(x.m, 10), -x.e))

\* EstimatedReduction giving what remains of the footprint, not what is saved
EstimatedReduction_Remaining(model, opt) ==
    toFixed1(DDivInt(DMul(NumberValue(model.co2),
                          DFromDecimal(100 - DigitsToInt(DigitPrefix(opt.reduction), 0), 1)),
                     100))

\* (parseFloat(selectedOptimizationModel.co2) * parseFloat(opt.reduction)
\*    / 100).toFixed(1), in tenths of a kg
EstimatedReduction(model, opt) ==
    toFixed1(DDivInt(DMul(NumberValue(model.co2), parseFloat(opt.reduction)),
                     100))

LevelClass(level) ==
    IF level = "High" THEN "bg-red-100 text-red-800"
    ELSE IF level = "Medium" THEN "bg-yellow-100 text-yellow-800"
    ELSE "bg-green-100 text-green-800"

\* one card per model; the card of the selected model is highlighted
ModelCards ==
    [i \in 1..Len(models) |->
       [model |-> models[i],
        highlighted |-> selectedOptimizationModel.id = models[i].id]]

Recommendations ==
    LET currentOptimizations == getModelOptimizations(selectedOptimizationModel)
    IN  [j \in 1..Len(currentOptimizations) |->
           LET opt == currentOptimizations[j]
           IN  [technique |-> opt.technique, reduction |-> opt.reduction,
                description |-> opt.description,
                impactClass |-> LevelClass(opt.impact),
                difficultyClass |-> LevelClass(opt.difficulty),
                estimated |-> EstimatedReduction(selectedOptimizationModel, opt),
                applyTo |-> selectedOptimizationModel.name]]

\* the data of the "Current vs Optimized Metrics" bar chart; co2 and energy
\* are Numbers, accuracy is the literal's count of tenths
OptimizationChart ==
    LET co2 == NumberValue(selectedOptimizationModel.co2)
    IN  << [name |-> "Original", co2 |-> co2, accuracy |-> 921,
            energy |-> DMul(co2, DFromDecimal(21, 10))],
           [name |-> "Optimized", co2 |-> DMul(co2, DFromDecimal(65, 100)),
            accuracy |-> 912, energy |-> DMul(co2, DFromDecimal(14, 10))] >>

\* renderOptimizations that takes a footprint of zero for a missing record
renderOptimizations_ZeroIsLoading ==
    IF selectedOptimizationModel = Null \/ selectedOptimizationModel.co2 = 0
    THEN [loading |-> TRUE]
    ELSE [loading |-> FALSE, cards |-> ModelCards,
          recommendations |-> Recommendations, chart |-> OptimizationChart]

renderOptimizations ==
    IF selectedOptimizationModel = Null THEN [loading |-> TRUE]
    ELSE [loading |-> FALSE, cards |-> ModelCards,
          recommendations |-> Recommendations, chart |-> OptimizationChart]

\* model.co2 < 100 ? ... : model.co2 < 200 ? ... : ...
EfficiencyClass(model) ==
    IF DLess(NumberValue(model.co2), DFromDecimal(100, 1))
    THEN "bg-green-100 text-green-800"
    ELSE IF DLess(NumberValue(model.co2), DFromDecimal(200, 1))
    THEN "bg-yellow-100 text-yellow-800"
    ELSE "bg-red-100 text-red-800"

\* EfficiencyLabel with the thresholds themselves in the lower class
EfficiencyLabel_Inclusive(model) ==
    IF ~DLess(DFromDecimal(100, 1), NumberValue(model.co2)) THEN "Excellent"
    ELSE IF ~DLess(DFromDecimal(200, 1), NumberValue(model.co2)) THEN "Good"
    ELSE "Needs Optimization"

EfficiencyLabel(model) ==
    IF DLess(NumberValue(model.co2), DFromDecimal(100, 1)) THEN "Excellent"
    ELSE IF DLess(NumberValue(model.co2), DFromDecimal(200, 1)) THEN "Good"
    ELSE "Needs Optimization"

\* TableRow with the GPU hours taken with the energy coefficient
TableRow_GpuFromEnergy(model) ==
    [name |-> model.name,
     co2 |-> model.co2,
     energy |-> toFixed1(DMul(NumberValue(model.co2), DFromDecimal(21, 10))),
     gpuHours |-> toFixed1(DMul(NumberValue(model.co2), DFromDecimal(21, 10))),
     efficiencyClass |-> EfficiencyClass(model),
     efficiency |-> EfficiencyLabel(model)]

\* a row of the Detailed Metrics table; energy and gpuHours are the
\* toFixed(1) strings, in tenths
TableRow(model) ==
    [name |-> model.name,
     co2 |-> model.co2,
     energy |-> toFixed1(DMul(NumberValue(model.co2), DFromDecimal(21, 10))),
     gpuHours |-> toFixed1(DMul(NumberValue(model.co2), DFromDecimal(8, 10))),
     efficiencyClass |-> EfficiencyClass(model),
     efficiency |-> EfficiencyLabel(model)]

renderAnalytics ==
    [energyByPhase |-> emissionData,
     historical |-> modelComparison,
     rows |-> [i \in 1..Len(models) |-> TableRow(models[i])]]

renderOverview == [trends |-> emissionData, sources |-> pieData]

StatusClass(status) ==
    IF status = "analyzed" THEN "bg-green-100 text-green-800"
    ELSE IF status = "analyzing" THEN "bg-yellow-100 text-yellow-800"
    ELSE "bg-blue-100 text-blue-800"

renderModels ==
    [i \in 1..Len(models) |->
       [model |-> models[i], statusClass |-> StatusClass(models[i].status)]]

(***************************************************************************)
(* Construction, the effect and the event handlers.                        *)
(***************************************************************************)
EmptyRequest == [modelName |-> "", version |-> "", file |-> ""]

\* the upload workflow when the component is constructed: an empty form, Idle
UploadInit ==
    /\ uploadRequest = EmptyRequest
    /\ workflow = "Idle"
    /\ network = <<>>
    /\ sent = 0
    /\ notification = Null
    /\ displayTimer = 0

Init ==
    /\ activeTab = "overview"
    /\ selectedModel = Null
    /\ selectedOptimizationModel = Null
    /\ models = InitialModels
    /\ effectPending = TRUE
    /\ lastEvent = [op |-> "mount"]
    /\ UploadInit

\* RunEffect that selects the first model whatever is selected
RunEffect_Unconditional ==
    /\ effectPending
    /\ selectedOptimizationModel' = (IF Len(models) > 0 THEN models[1] ELSE Null)
    /\ effectPending' = (selectedOptimizationModel = Null)
    /\ lastEvent' = [op |-> "effect", set |-> TRUE]
    /\ UNCHANGED <<activeTab, selectedModel, models>>
    /\ UNCHANGED uploadVars

\* useEffect(..., [models, selectedOptimizationModel]): runs after the
\* first render and after a render in which a dependency changed
RunEffect ==
    /\ effectPending
    /\ IF Len(models) > 0 /\ selectedOptimizationModel = Null
       THEN /\ selectedOptimizationModel' = models[1]
            /\ effectPending' = TRUE
            /\ lastEvent' = [op |-> "effect", set |-> TRUE]
       ELSE /\ selectedOptimizationModel' = selectedOptimizationModel
            /\ effectPending' = FALSE
            /\ lastEvent' = [op |-> "effect", set |-> FALSE]
    /\ UNCHANGED <<activeTab, selectedModel, models>>
    /\ UNCHANGED uploadVars

\* ClickTab with the button of the active tab disabled
ClickTab_OtherTabOnly(t) ==
    /\ activeTab # t
    /\ activeTab' = t
    /\ lastEvent' = [op |-> "setActiveTab", tab |-> t, from |-> activeTab]
    /\ UNCHANGED <<selectedModel, selectedOptimizationModel, models,
                   effectPending>>
    /\ UNCHANGED uploadVars

\* a tab button's onClick: setActiveTab(tab.id)
ClickTab(t) ==
    /\ activeTab' = t
    /\ lastEvent' = [op |-> "setActiveTab", tab |-> t, from |-> activeTab]
    /\ UNCHANGED <<selectedModel, selectedOptimizationModel, models,
                   effectPending>>
    /\ UNCHANGED uploadVars

\* Analyze that also makes the model the one selected for optimization
Analyze_AlsoSelectsForOptimization(i) ==
    /\ activeTab = "models"
    /\ selectedModel' = models[i]
    /\ selectedOptimizationModel' = models[i]
    /\ effectPending' = (effectPending \/ models[i] # selectedOptimizationModel)
    /\ lastEvent' = [op |-> "setSelectedModel", id |-> models[i].id]
    /\ UNCHANGED <<activeTab, models>>
    /\ UNCHANGED uploadVars

\* the Analyze button of a model of the Models tab: setSelectedModel(model)
Analyze(i) ==
    /\ activeTab = "models"
    /\ selectedModel' = models[i]
    /\ lastEvent' = [op |-> "setSelectedModel", id |-> models[i].id]
    /\ UNCHANGED <<activeTab, selectedOptimizationModel, models, effectPending>>
    /\ UNCHANGED uploadVars

\* SelectOptimizationModel as a toggle: the selected card's click clears the
\* selection
SelectOptimizationModel_Toggle(i) ==
    /\ activeTab = "optimizations"
    /\ selectedOptimizationModel # Null
    /\ selectedOptimizationModel' =
         (IF models[i] = selectedOptimizationModel THEN Null ELSE models[i])
    /\ effectPending' = TRUE
    /\ lastEvent' = [op |-> "setSelectedOptimizationModel",
                     id |-> models[i].id,
                     previous |-> selectedOptimizationModel.id]
    /\ UNCHANGED <<activeTab, selectedModel, models>>
    /\ UNCHANGED uploadVars

\* SelectOptimizationModel where another card's click first clears the
\* selection
SelectOptimizationModel_CollapseFirst(i) ==
    /\ activeTab = "optimizations"
    /\ selectedOptimizationModel # Null
    /\ selectedOptimizationModel' =
         (IF models[i] = selectedOptimizationModel THEN models[i] ELSE Null)
    /\ effectPending' = TRUE
    /\ lastEvent' = [op |-> "setSelectedOptimizationModel",
                     id |-> models[i].id,
                     previous |-> selectedOptimizationModel.id]
    /\ UNCHANGED <<activeTab, selectedModel, models>>
    /\ UNCHANGED uploadVars

\* a model card's onClick on the Optimizations tab, which shows the cards
\* once a model is selected: setSelectedOptimizationModel(model).  Setting
\* the cell to the value it holds renders nothing and schedules no effect.
SelectOptimizationModel(i) ==
    /\ activeTab = "optimizations"
    /\ selectedOptimizationModel # Null
    /\ selectedOptimizationModel' = models[i]
    /\ effectPending' = (effectPending \/ models[i] # selectedOptimizationModel)
    /\ lastEvent' = [op |-> "setSelectedOptimizationModel",
                     id |-> models[i].id,
                     previous |-> selectedOptimizationModel.id]
    /\ UNCHANGED <<activeTab, selectedModel, models>>
    /\ UNCHANGED uploadVars

\* Apply that carries the technique out: it marks the selected model's
\* record as optimized
Apply_MarksOptimized(j) ==
    /\ activeTab = "optimizations"
    /\ selectedOptimizationModel # Null
    /\ j \in 1..Len(getModelOptimizations(selectedOptimizationModel))
    /\ lastEvent' =
         [op |-> "alert",
          technique |-> getModelOptimizations(selectedOptimizationModel)[j].technique,
          name |-> selectedOptimizationModel.name]
    /\ models' = [i \in 1..Len(models) |->
                    IF models[i].id = selectedOptimizationModel.id
                    THEN [models[i] EXCEPT !.status = "optimized"]
                    ELSE models[i]]
    /\ UNCHANGED <<activeTab, selectedModel, selectedOptimizationModel,
                   effectPending>>
    /\ UNCHANGED uploadVars

\* the Apply button of recommendation j: alert(`Applying ${opt.technique} to
\* ${selectedOptimizationModel.name}...`)
Apply(j) ==
    /\ activeTab = "optimizations"
    /\ selectedOptimizationModel # Null
    /\ j \in 1..Len(getModelOptimizations(selectedOptimizationModel))
    /\ lastEvent' =
         [op |-> "alert",
          technique |-> getModelOptimizations(selectedOptimizationModel)[j].technique,
          name |-> selectedOptimizationModel.name]
    /\ UNCHANGED <<activeTab, selectedModel, selectedOptimizationModel, models,
                   effectPending>>
    /\ UNCHANGED uploadVars

Next ==
    \/ RunEffect
    \/ \E i \in 1..Len(Tabs) : ClickTab(Tabs[i])
    \/ \E i \in 1..Len(models) : Analyze(i)
    \/ \E i \in 1..Len(models) : SelectOptimizationModel(i)
    \/ \E j \in 1..Len(getModelOptimizations(selectedOptimizationModel)) :
          Apply(j)

Spec == Init /\ [][Next]_vars

(***************************************************************************)
(* The derivations as functions of any record: the same component started  *)
(* with the source's list of models or with a list of one record whose     *)
(* category and footprint are drawn from the sets below.  "Audio" is a     *)
(* category the catalog does not know, "undefined" an absent one.  The     *)
(* footprints are the badge thresholds and their neighbours, the spec's    *)
(* example record (0.0046), GPT-3.5's 234.7, and the first tenths of a kg. *)
(***************************************************************************)
MaxTenths == 3

TypeInputs == {"NLP", "Language", "Vision", "Detection", "Audio", "undefined"}

Co2Inputs ==
    {46, 999000, 1000000, 1999000, 2000000, 2347000}
      \cup {k * (CO2Scale \div 10) : k \in 0..MaxTenths}

InitFn ==
    /\ activeTab = "overview"
    /\ selectedModel = Null
    /\ selectedOptimizationModel = Null
    /\ models \in
         {InitialModels}
           \cup { << [id |-> 1, name |-> "Model", type |-> t, co2 |-> c,
                     status |-> "analyzed", lastRun |-> "2024-12-01"] >> :
                   t \in TypeInputs, c \in Co2Inputs }
    /\ effectPending = TRUE
    /\ lastEvent = [op |-> "mount"]
    /\ UploadInit

SpecFn == InitFn /\ [][Next]_vars

(***************************************************************************)
(* The upload workflow of section 4.4 of the specification.  The form is   *)
(* part of the Models tab, where App.js draws the Upload Section; a        *)
(* response and the notification's timer arrive whatever tab is shown.     *)
(* Time is counted in the specification's time units.  A call that is      *)
(* never answered leaves the workflow in Submitting.                       *)
(***************************************************************************)
DisplayDelay == 3

MaxUploads == 2

FieldNames == {"modelName", "version", "file"}

FieldValues ==
    [modelName |-> {"", "bert-base"}, version |-> {"", "1.0"},
     file |-> {"", "model.pt"}]

\* what the upload sink can answer: success, a non-success response that
\* carries a message or an error field, or no answer but a transport error
Responses ==
    { [kind |-> "success", text |-> "Model uploaded"],
      [kind |-> "failure", text |-> "message: unsupported format"],
      [kind |-> "failure", text |-> "error: quota exceeded"],
      [kind |-> "transport", text |-> "Failed to fetch"] }

Complete(request) ==
    /\ request.modelName # ""
    /\ request.version # ""
    /\ request.file # ""

\* the user fills in or empties a field of the form
EditField(field, value) ==
    /\ activeTab = "models"
    /\ uploadRequest' = [uploadRequest EXCEPT ![field] = value]
    /\ lastEvent' = [op |-> "edit", field |-> field]
    /\ UNCHANGED <<activeTab, selectedModel, selectedOptimizationModel, models,
                   effectPending, workflow, network, sent, notification,
                   displayTimer>>

\* Submit without the check of the fields
Submit_Unvalidated ==
    /\ activeTab = "models"
    /\ workflow # "Submitting"
    /\ sent < MaxUploads
    /\ workflow' = "Submitting"
    /\ network' = Append(network, uploadRequest)
    /\ sent' = sent + 1
    /\ notification' = Null
    /\ lastEvent' = [op |-> "submit"]
    /\ UNCHANGED <<activeTab, selectedModel, selectedOptimizationModel, models,
                   effectPending, uploadRequest, displayTimer>>

\* Submit with a button that stays enabled while a call is in flight
Submit_WhileSubmitting ==
    /\ activeTab = "models"
    /\ Complete(uploadRequest)
    /\ sent < MaxUploads
    /\ workflow' = "Submitting"
    /\ network' = Append(network, uploadRequest)
    /\ sent' = sent + 1
    /\ notification' = Null
    /\ lastEvent' = [op |-> "submit"]
    /\ UNCHANGED <<activeTab, selectedModel, selectedOptimizationModel, models,
                   effectPending, uploadRequest, displayTimer>>

\* the submit button, enabled when the three fields are filled in and no
\* call is in flight: one network call carrying the file, the model name and
\* the version.  A notification still on display goes; its timer runs on.
Submit ==
    /\ activeTab = "models"
    /\ workflow # "Submitting"
    /\ Complete(uploadRequest)
    /\ sent < MaxUploads
    /\ workflow' = "Submitting"
    /\ network' = Append(network, uploadRequest)
    /\ sent' = sent + 1
    /\ notification' = Null
    /\ lastEvent' = [op |-> "submit"]
    /\ UNCHANGED <<activeTab, selectedModel, selectedOptimizationModel, models,
                   effectPending, uploadRequest, displayTimer>>

\* Respond that clears the form after a failure as well
Respond_AlwaysClears(r) ==
    /\ workflow = "Submitting"
    /\ network # <<>>
    /\ network' = Tail(network)
    /\ workflow' = (IF r.kind = "success" THEN "Succeeded" ELSE "Failed")
    /\ uploadRequest' = EmptyRequest
    /\ notification' = [type |-> r.kind, text |-> r.text]
    /\ displayTimer' = DisplayDelay
    /\ lastEvent' = [op |-> "response", kind |-> r.kind,
                     form |-> uploadRequest]
    /\ UNCHANGED <<activeTab, selectedModel, selectedOptimizationModel, models,
                   effectPending, sent>>

\* the call in flight is answered: success clears the form, a failure keeps
\* it and shows the server's message or the transport error; the
\* notification's timer starts
Respond(r) ==
    /\ workflow = "Submitting"
    /\ network # <<>>
    /\ network' = Tail(network)
    /\ IF r.kind = "success"
       THEN /\ workflow' = "Succeeded"
            /\ uploadRequest' = EmptyRequest
       ELSE /\ workflow' = "Failed"
            /\ uploadRequest' = uploadRequest
    /\ notification' = [type |-> r.kind, text |-> r.text]
    /\ displayTimer' = DisplayDelay
    /\ lastEvent' = [op |-> "response", kind |-> r.kind,
                     form |-> uploadRequest]
    /\ UNCHANGED <<activeTab, selectedModel, selectedOptimizationModel, models,
                   effectPending, sent>>

\* Tick whose timer runs out without the return to Idle
Tick_NoReturn ==
    /\ displayTimer > 0
    /\ displayTimer' = displayTimer - 1
    /\ lastEvent' = [op |-> "tick"]
    /\ UNCHANGED <<activeTab, selectedModel, selectedOptimizationModel, models,
                   effectPending, uploadRequest, workflow, network, sent,
                   notification>>

\* a time unit passes while the notification's timer runs; when the delay
\* has elapsed the notification goes and Succeeded or Failed returns to Idle
Tick ==
    /\ displayTimer > 0
    /\ displayTimer' = displayTimer - 1
    /\ IF displayTimer = 1 /\ workflow \in {"Succeeded", "Failed"}
       THEN workflow' = "Idle" /\ notification' = Null
       ELSE UNCHANGED <<workflow, notification>>
    /\ lastEvent' = [op |-> "tick"]
    /\ UNCHANGED <<activeTab, selectedModel, selectedOptimizationModel, models,
                   effectPending, uploadRequest, network, sent>>

NextUpload ==
    \/ \E i \in 1..Len(Tabs) : ClickTab(Tabs[i])
    \/ \E field \in FieldNames : \E value \in FieldValues[field] :
          EditField(field, value)
    \/ Submit
    \/ \E r \in Responses : Respond(r)
    \/ Tick

SpecUpload == Init /\ [][NextUpload]_vars

\* the browser runs a timer that is due
FairSpecUpload == SpecUpload /\ WF_vars(Tick)

(***************************************************************************)
(* Properties.                                                             *)
(***************************************************************************)
TabSet == {Tabs[i] : i \in 1..Len(Tabs)}

KnownCategories == {"NLP", "Language", "Vision", "Detection"}

\* the models the state holds, in the list or in a selection cell
ModelsInState ==
    {models[i] : i \in 1..Len(models)}
      \cup {selectedModel, selectedOptimizationModel}

\* the cards of the Optimizations tab drawn as selected
HighlightedCards ==
    IF selectedOptimizationModel = Null THEN {}
    ELSE {i \in 1..Len(models) : ModelCards[i].highlighted}

\* C1: the active section is always one of overview, models, optimizations,
\* analytics and is overview initially; in every state a click on each of
\* the four tabs is enabled, and it makes that tab the active section
\* whatever the section and the selections were.
C1_ActiveTab ==
    /\ activeTab = "overview"
    /\ [](/\ activeTab \in TabSet
          /\ \A t \in TabSet : ENABLED ClickTab(t))
    /\ [][\A t \in TabSet : ClickTab(t) => activeTab' = t]_vars

\* C1 witness: a click moved from optimizations to analytics while both
\* selections were set.
C1_Witness ==
    /\ lastEvent.op = "setActiveTab"
    /\ lastEvent.from = "optimizations"
    /\ activeTab = "analytics"
    /\ selectedModel # Null
    /\ selectedOptimizationModel # Null

\* C2 as stated: a click on the card of the model that is selected clears
\* the selection.
C2_Original ==
    [][\A i \in 1..Len(models) :
         (SelectOptimizationModel(i) /\ selectedOptimizationModel = models[i])
           => selectedOptimizationModel' = Null]_vars

\* C2 as amended: a click on the card of the model that is selected leaves
\* that model selected; after selecting A and then A again the selection is
\* A, not "no model".
C2_ReselectKeeps ==
    [][\A i \in 1..Len(models) :
         (SelectOptimizationModel(i) /\ selectedOptimizationModel = models[i])
           => /\ selectedOptimizationModel' = models[i]
              /\ selectedOptimizationModel' # Null]_vars

\* C2 witness: the selected model's card was clicked again.
C2_Witness ==
    /\ lastEvent.op = "setSelectedOptimizationModel"
    /\ lastEvent.id = lastEvent.previous
    /\ selectedOptimizationModel # Null
    /\ selectedOptimizationModel.id = lastEvent.id

\* C3: at most one card is drawn as selected, and a click on the card of a
\* model B other than the selected model A makes B the selected model in
\* that one step: B's card alone is highlighted, A's is not, and the
\* selection is not empty in between.
C3_SingleSelection ==
    /\ [](Cardinality(HighlightedCards) <= 1)
    /\ [][\A i \in 1..Len(models) :
            (SelectOptimizationModel(i) /\ selectedOptimizationModel # models[i])
              => /\ selectedOptimizationModel' = models[i]
                 /\ HighlightedCards' = {i}]_vars

\* C3 witness: a model other than the selected one was clicked and is now
\* the one highlighted card.
C3_Witness ==
    /\ lastEvent.op = "setSelectedOptimizationModel"
    /\ lastEvent.id # lastEvent.previous
    /\ selectedOptimizationModel # Null
    /\ selectedOptimizationModel.id = lastEvent.id
    /\ Cardinality(HighlightedCards) = 1

\* C4 as stated: getModelOptimizations gives a non-empty list for every
\* input, an absent model included.
C4_Original ==
    \A m \in ModelsInState : Len(getModelOptimizations(m)) > 0

\* C4 as amended: for every model that is present, whatever its category,
\* getModelOptimizations gives a non-empty list: the category's own list
\* for the four known categories, the NLP list for an unknown or absent
\* one.  For an absent model it gives the empty list.
C4_NonEmptyForModel ==
    \A m \in ModelsInState :
        IF m = Null THEN getModelOptimizations(m) = <<>>
        ELSE /\ Len(getModelOptimizations(m)) > 0
             /\ m.type \notin KnownCategories
                  => getModelOptimizations(m) = baseOptimizations["NLP"]

\* C4 witness: the recommendations of a selected model of an unknown
\* category are shown.
C4_Witness ==
    /\ activeTab = "optimizations"
    /\ selectedOptimizationModel # Null
    /\ selectedOptimizationModel.type = "Audio"
    /\ Len(renderOptimizations.recommendations) > 0

\* the decimal digits of a natural number
RECURSIVE IntToDigits(_)
IntToDigits(n) ==
    IF n < 10 THEN <<Digits[n + 1]>>
    ELSE IntToDigits(n \div 10) \o <<Digits[(n % 10) + 1]>>

\* an entry's reductionPercent: the p of 0..100 its reduction is written as
ReductionPercent(opt) ==
    CHOOSE p \in 0..100 : IntToDigits(p) \o <<"%">> = opt.reduction

Abs(x) == IF x < 0 THEN -x ELSE x

\* the models whose figures the state can show
PresentModels == ModelsInState \ {Null}

\* s tenths is a one-decimal figure nearest to n / d: |n / d - s / 10| is
\* at most 1/20
NearestTenth(s, n, d) == 2 * Abs(10 * n - s * d) <= d

\* for every present model and every entry of its list the estimated
\* saving is a one-decimal figure nearest to co2 * reductionPercent / 100
C5_SavingsRounded ==
    \A m \in PresentModels :
      \A j \in 1..Len(getModelOptimizations(m)) :
        LET opt == getModelOptimizations(m)[j]
        IN  NearestTenth(EstimatedReduction(m, opt),
                         m.co2 * ReductionPercent(opt), 100 * CO2Scale)

LargerInputs(c) == {c2 \in Co2Inputs : c2 > c}

\* C6 as stated: for a positive footprint the displayed saving is strictly
\* smaller for a smaller reductionPercent, and for an entry it is strictly
\* smaller for a smaller positive footprint.
C6_Original ==
    activeTab = "optimizations" /\ selectedOptimizationModel # Null
      => LET m == selectedOptimizationModel
             L == getModelOptimizations(m)
         IN  m.co2 > 0 =>
               /\ \A i, j \in 1..Len(L) :
                     ReductionPercent(L[i]) < ReductionPercent(L[j])
                       => EstimatedReduction(m, L[i]) < EstimatedReduction(m, L[j])
               /\ \A c2 \in LargerInputs(m.co2) : \A i \in 1..Len(L) :
                     EstimatedReduction(m, L[i])
                       < EstimatedReduction([m EXCEPT !.co2 = c2], L[i])

\* C6 as amended: the displayed saving never decreases when the
\* reductionPercent grows for a fixed record, nor when the footprint grows
\* for a fixed entry; after the rounding to one decimal it may stay equal.
C6_Monotone ==
    activeTab = "optimizations" /\ selectedOptimizationModel # Null
      => LET m == selectedOptimizationModel
             L == getModelOptimizations(m)
         IN  /\ \A i, j \in 1..Len(L) :
                   ReductionPercent(L[i]) < ReductionPercent(L[j])
                     => EstimatedReduction(m, L[i]) <= EstimatedReduction(m, L[j])
             /\ \A c2 \in LargerInputs(m.co2) : \A i \in 1..Len(L) :
                   EstimatedReduction(m, L[i])
                     <= EstimatedReduction([m EXCEPT !.co2 = c2], L[i])

\* C6 witness: a footprint of 0.1 kg is displayed with entries of 25% and
\* 20%, both shown as 0.0.
C6_Witness ==
    /\ activeTab = "optimizations"
    /\ selectedOptimizationModel # Null
    /\ selectedOptimizationModel.co2 = CO2Scale \div 10
    /\ Recommendations[1].reduction = <<"2", "5", "%">>
    /\ Recommendations[4].reduction = <<"2", "0", "%">>
    /\ Recommendations[1].estimated = 0
    /\ Recommendations[4].estimated = 0

\* C7: every row's badge is Excellent for co2 < 100, Good for 100 <= co2 <
\* 200 and Needs Optimization from 200 on (so 99.9 is Excellent, 100 and
\* 199.9 are Good, 200 is Needs Optimization), and the colour class changes
\* at the same two thresholds.
C7_EfficiencyBadge ==
    activeTab = "analytics"
      => \A i \in 1..Len(models) :
           LET c   == models[i].co2
               row == renderAnalytics.rows[i]
           IN  /\ c < 100 * CO2Scale
                    => /\ row.efficiency = "Excellent"
                       /\ row.efficiencyClass = "bg-green-100 text-green-800"
               /\ 100 * CO2Scale <= c /\ c < 200 * CO2Scale
                    => /\ row.efficiency = "Good"
                       /\ row.efficiencyClass = "bg-yellow-100 text-yellow-800"
               /\ 200 * CO2Scale <= c
                    => /\ row.efficiency = "Needs Optimization"
                       /\ row.efficiencyClass = "bg-red-100 text-red-800"

\* C7 witness: the table shows a record of exactly 100 kg as Good.
C7_Witness ==
    /\ activeTab = "analytics"
    /\ Len(models) = 1
    /\ models[1].co2 = 100 * CO2Scale
    /\ renderAnalytics.rows[1].efficiency = "Good"

\* C8 as stated: one row per record, and every row's energyKwh is co2 * 2.1
\* and gpuHours is co2 * 0.8 with no rounding.
C8_Original ==
    activeTab = "analytics"
      => /\ Len(renderAnalytics.rows) = Len(models)
         /\ \A i \in 1..Len(models) :
              LET row == renderAnalytics.rows[i]
              IN  /\ row.co2 = models[i].co2
                  /\ row.energy * CO2Scale = models[i].co2 * 21
                  /\ row.gpuHours * CO2Scale = models[i].co2 * 8

\* C8 as amended: one row per record; every row shows co2 as it is, and
\* energyKwh = co2 * 2.1 and gpuHours = co2 * 0.8 each rounded to one
\* decimal place; a footprint of 0.0046 gives co2 0.0046, energyKwh 0.0,
\* gpuHours 0.0 and the badge Excellent.
C8_TableRows ==
    activeTab = "analytics"
      => /\ Len(renderAnalytics.rows) = Len(models)
         /\ \A i \in 1..Len(models) :
              LET row == renderAnalytics.rows[i]
                  c   == models[i].co2
              IN  /\ row.name = models[i].name
                  /\ row.co2 = c
                  /\ NearestTenth(row.energy, c * 21, 10 * CO2Scale)
                  /\ NearestTenth(row.gpuHours, c * 8, 10 * CO2Scale)
                  /\ c = 46 => /\ row.energy = 0
                                /\ row.gpuHours = 0
                                /\ row.efficiency = "Excellent"

\* C8 witness: the table shows the record of 0.0046 kg.
C8_Witness ==
    /\ activeTab = "analytics"
    /\ Len(renderAnalytics.rows) = 1
    /\ renderAnalytics.rows[1].co2 = 46
    /\ renderAnalytics.rows[1].energy = 0
    /\ renderAnalytics.rows[1].gpuHours = 0

PeriodLabels == <<"Jan", "Feb", "Mar", "Apr", "May", "Jun">>

SeriesOK(series) ==
    /\ [i \in 1..Len(series) |-> series[i].name] = PeriodLabels
    /\ \A i \in 1..Len(series) :
          series[i].total = series[i].training + series[i].inference

\* C9: wherever the time series is drawn (the trend chart of Overview, the
\* phase chart of Analytics) it is a sequence over the six period labels
\* Jan..Jun, the same in every state, and every point's total is its
\* training plus its inference.
C9_TimeSeries ==
    /\ activeTab = "overview" => SeriesOK(renderOverview.trends)
    /\ activeTab = "analytics" => SeriesOK(renderAnalytics.energyByPhase)
    /\ renderOverview.trends = renderAnalytics.energyByPhase

\* C9 witness: the Overview is drawn again after a visit to Analytics.
C9_Witness ==
    /\ activeTab = "overview"
    /\ lastEvent.op = "setActiveTab"
    /\ lastEvent.from = "analytics"
    /\ Len(renderOverview.trends) = 6

ScenarioLabels == <<"Original", "Pruned", "Quantized", "Distilled">>

\* the multipliers 1.0, 0.8, 0.7, 0.6, in tenths
ScenarioMultipliers == <<10, 8, 7, 6>>

\* C10 as stated: four rows Original, Pruned, Quantized, Distilled whose
\* co2 is the Original's scaled by 1.0, 0.8, 0.7, 0.6 and whose energy is in
\* the ratio 1000 : 800 : 700 : 600.
C10_Original ==
    activeTab = "analytics"
      => LET rows == renderAnalytics.historical
         IN  /\ [i \in 1..Len(rows) |-> rows[i].name] = ScenarioLabels
             /\ \A i \in 1..Len(rows) :
                  /\ rows[i].co2 * 10 = rows[1].co2 * ScenarioMultipliers[i]
                  /\ rows[i].energy * 10 = rows[1].energy * ScenarioMultipliers[i]

\* C10 as amended: four rows Original, Pruned, Quantized, Distilled in that
\* order whose co2 and energy are fixed figures that fall from each row to
\* the next and are at most the Original's value scaled by 1.0, 0.8, 0.7,
\* 0.6.
C10_Scenarios ==
    activeTab = "analytics"
      => LET rows == renderAnalytics.historical
         IN  /\ [i \in 1..Len(rows) |-> rows[i].name] = ScenarioLabels
             /\ \A i \in 1..Len(rows) :
                  /\ rows[i].co2 * 10 <= rows[1].co2 * ScenarioMultipliers[i]
                  /\ rows[i].energy * 10 <= rows[1].energy * ScenarioMultipliers[i]
             /\ \A i \in 2..Len(rows) :
                  /\ rows[i].co2 < rows[i - 1].co2
                  /\ rows[i].energy < rows[i - 1].energy

\* C10 witness: the Historical Comparison chart is drawn with its Pruned
\* row below 0.8 of the Original.
C10_Witness ==
    /\ activeTab = "analytics"
    /\ Len(renderAnalytics.historical) = 4
    /\ renderAnalytics.historical[2].name = "Pruned"
    /\ renderAnalytics.historical[2].co2 * 10 < renderAnalytics.historical[1].co2 * 8

SourceLabels == <<"Training", "Inference", "Infrastructure">>

\* C11 as stated: the source-breakdown view has the labels Training,
\* Inference, Infrastructure, a non-zero Infrastructure value, and its
\* Training and Inference values are the static and the dynamic part of a
\* record's footprint: together they make up the footprint of one of the
\* records.
C11_Original ==
    activeTab = "overview"
      => LET pie == renderOverview.sources
         IN  /\ [i \in 1..Len(pie) |-> pie[i].name] = SourceLabels
             /\ pie[3].value # 0
             /\ \E i \in 1..Len(models) :
                  (pie[1].value + pie[2].value) * CO2Scale = models[i].co2

\* C11 as amended: the source-breakdown view has exactly the labels
\* Training, Inference, Infrastructure in that order, and its values are
\* the fixed non-zero figures 65, 25, 10 whatever the records are.
C11_SourceBreakdown ==
    activeTab = "overview"
      => LET pie == renderOverview.sources
         IN  /\ [i \in 1..Len(pie) |-> pie[i].name] = SourceLabels
             /\ [i \in 1..Len(pie) |-> pie[i].value] = <<65, 25, 10>>
             /\ \A i \in 1..Len(pie) : pie[i].value # 0

\* C11 witness: the Overview tab is shown, after a click on its button, for
\* a single record of 0.0046 kg.
C11_Witness ==
    /\ activeTab = "overview"
    /\ lastEvent.op = "setActiveTab"
    /\ Len(models) = 1
    /\ models[1].co2 = 46
    /\ renderOverview.sources[3].name = "Infrastructure"

\* what the four tabs would draw
Views ==
    [overview |-> renderOverview, models |-> renderModels,
     optimizations |-> renderOptimizations, analytics |-> renderAnalytics]

\* the same four views written as a function of the two cells they read
ViewsOf(selected, ms) ==
    [overview |-> [trends |-> emissionData, sources |-> pieData],
     models |->
       [i \in 1..Len(ms) |->
          [model |-> ms[i], statusClass |-> StatusClass(ms[i].status)]],
     optimizations |->
       IF selected = Null THEN [loading |-> TRUE]
       ELSE [loading |-> FALSE,
             cards |->
               [i \in 1..Len(ms) |->
                  [model |-> ms[i], highlighted |-> selected.id = ms[i].id]],
             recommendations |->
               [j \in 1..Len(getModelOptimizations(selected)) |->
                  LET opt == getModelOptimizations(selected)[j]
                  IN  [technique |-> opt.technique, reduction |-> opt.reduction,
                       description |-> opt.description,
                       impactClass |-> LevelClass(opt.impact),
                       difficultyClass |-> LevelClass(opt.difficulty),
                       estimated |-> EstimatedReduction(selected, opt),
                       applyTo |-> selected.name]],
             chart |->
               << [name |-> "Original", co2 |-> NumberValue(selected.co2),
                   accuracy |-> 921,
                   energy |-> DMul(NumberValue(selected.co2), DFromDecimal(21, 10))],
                  [name |-> "Optimized",
                   co2 |-> DMul(NumberValue(selected.co2), DFromDecimal(65, 100)),
                   accuracy |-> 912,
                   energy |-> DMul(NumberValue(selected.co2), DFromDecimal(14, 10))] >>],
     analytics |->
       [energyByPhase |-> emissionData, historical |-> modelComparison,
        rows |-> [i \in 1..Len(ms) |-> TableRow(ms[i])]]]

\* C12: an Apply button only shows its confirmation message, which names the
\* technique and the selected model: the model records, the selected models,
\* the active tab and every view stay as they were (the views are a function
\* of the selected model and the records alone); and wherever the
\* recommendations of a selected model are shown every Apply button can be
\* clicked, so also right after an Apply.
C12_ApplyOnlyConfirms ==
    /\ [](Views = ViewsOf(selectedOptimizationModel, models))
    /\ [](activeTab = "optimizations" /\ selectedOptimizationModel # Null
            => /\ Len(getModelOptimizations(selectedOptimizationModel)) > 0
               /\ \A j \in 1..Len(getModelOptimizations(selectedOptimizationModel)) :
                    ENABLED Apply(j))
    /\ [][lastEvent'.op = "alert" =>
            /\ UNCHANGED <<models, selectedModel, selectedOptimizationModel,
                           activeTab, effectPending>>
            /\ ViewsOf(selectedOptimizationModel', models')
                 = ViewsOf(selectedOptimizationModel, models)
            /\ selectedOptimizationModel # Null
            /\ lastEvent'.name = selectedOptimizationModel.name
            /\ \E j \in 1..Len(getModelOptimizations(selectedOptimizationModel)) :
                 lastEvent'.technique =
                   getModelOptimizations(selectedOptimizationModel)[j].technique]_vars

\* C12 witness: a confirmation was shown for GPT-3.5, a model the user
\* selected, and the records are the initial ones.
C12_Witness ==
    /\ lastEvent.op = "alert"
    /\ lastEvent.name = "GPT-3.5"
    /\ selectedOptimizationModel # Null
    /\ selectedOptimizationModel.id = 2
    /\ models = InitialModels

Outcomes == {"Succeeded", "Failed"}

\* the submit button can be clicked now, were the cap on the number of
\* uploads not reached
SubmitOffered == activeTab = "models" /\ sent < MaxUploads

\* C13: the workflow leaves Idle for Submitting only with a model name, a
\* version and a file that are all non-empty, and then it can; while one of
\* them is empty the submit button is disabled, no network call is made and
\* an Idle workflow stays Idle.
C13_SubmitNeedsAllFields ==
    /\ [](~Complete(uploadRequest) => ~ENABLED Submit)
    /\ [](workflow = "Idle" /\ Complete(uploadRequest) /\ SubmitOffered
            => ENABLED Submit)
    /\ [][workflow = "Idle" /\ workflow' = "Submitting"
            => /\ Complete(uploadRequest)
               /\ network' = <<uploadRequest>>]_vars
    /\ [][~Complete(uploadRequest)
            => /\ network' = network \/ network' = <<>>
               /\ sent' = sent
               /\ workflow = "Idle" => workflow' = "Idle"]_vars

\* C13 witness: after an upload that failed the workflow is back in Idle, on
\* the Models tab, with the version emptied and the other fields filled in.
C13_Witness ==
    /\ workflow = "Idle"
    /\ activeTab = "models"
    /\ sent = 1
    /\ uploadRequest.modelName # ""
    /\ uploadRequest.file # ""
    /\ uploadRequest.version = ""

\* C14: while the workflow is Submitting the submit button is disabled and
\* exactly one upload is in flight, at no time more; every entry into
\* Submitting issues exactly one network call and no call is issued
\* otherwise, so a call is never retried.
C14_SingleUploadInFlight ==
    /\ [](workflow = "Submitting" => ~ENABLED Submit)
    /\ [](Len(network) <= 1)
    /\ [](workflow = "Submitting" <=> Len(network) = 1)
    /\ [][workflow # "Submitting" /\ workflow' = "Submitting"
            => /\ sent' = sent + 1
               /\ Len(network') = Len(network) + 1]_vars
    /\ [][sent' # sent \/ Len(network') > Len(network)
            => /\ workflow # "Submitting"
               /\ workflow' = "Submitting"
               /\ lastEvent'.op = "submit"]_vars

\* C14 witness: a second upload is in flight, submitted by the user after
\* the first one was answered; the form is complete and the Models tab shown.
C14_Witness ==
    /\ workflow = "Submitting"
    /\ sent = 2
    /\ Len(network) = 1
    /\ Complete(uploadRequest)
    /\ activeTab = "models"

\* C15: an answer arrives only in Submitting; a successful one moves the
\* workflow to Succeeded and empties the file, the model name and the
\* version; a transport error or a non-success response moves it to Failed,
\* shows the error's text and leaves the three fields as they were.
C15_ResponseOutcome ==
    /\ [][lastEvent'.op = "response"
            => /\ workflow = "Submitting"
               /\ IF lastEvent'.kind = "success"
                  THEN /\ workflow' = "Succeeded"
                       /\ uploadRequest' = EmptyRequest
                  ELSE /\ workflow' = "Failed"
                       /\ uploadRequest' = uploadRequest
                       /\ notification'.type \in {"failure", "transport"}
                       /\ \E r \in Responses :
                            /\ r.kind = notification'.type
                            /\ r.text = notification'.text]_vars
    /\ [][workflow' \in Outcomes /\ workflow' # workflow
            => workflow = "Submitting" /\ lastEvent'.op = "response"]_vars
    /\ [](workflow = "Succeeded" /\ lastEvent.op = "response"
            => uploadRequest = EmptyRequest)
    /\ [](workflow = "Failed" /\ lastEvent.op = "response"
            => uploadRequest = lastEvent.form)

\* C15 witness: a transport error was the answer to a complete form, which
\* is still filled in.
C15_Witness ==
    /\ workflow = "Failed"
    /\ lastEvent.op = "response"
    /\ lastEvent.kind = "transport"
    /\ Complete(lastEvent.form)
    /\ Complete(uploadRequest)
    /\ notification.text = "Failed to fetch"

\* C16: Succeeded and Failed are entered with the notification's timer set
\* to the display delay and are left either by the timer, for Idle, exactly
\* when the delay has elapsed, or by a new submission; the timer needs no
\* user action, so the workflow does not stay in Succeeded or Failed; and
\* with a complete form a new submission is enabled while the timer is
\* still pending.
C16_ReturnsToIdle ==
    /\ [](workflow \in Outcomes
            => displayTimer \in 1..DisplayDelay /\ ENABLED Tick)
    /\ [](workflow # "Submitting" /\ displayTimer > 0
          /\ Complete(uploadRequest) /\ SubmitOffered
            => ENABLED Submit)
    /\ [][workflow' \in Outcomes /\ workflow \notin Outcomes
            => displayTimer' = DisplayDelay]_vars
    /\ [][workflow' # workflow /\ workflow \in Outcomes
            => (\/ /\ lastEvent'.op = "tick"
                   /\ displayTimer = 1
                   /\ workflow' = "Idle"
                \/ /\ lastEvent'.op = "submit"
                   /\ workflow' = "Submitting")]_vars
    /\ (workflow \in Outcomes ~> workflow \in {"Idle", "Submitting"})

\* C16 witness: the timer has just returned the workflow to Idle after the
\* one upload made.
C16_Witness ==
    /\ workflow = "Idle"
    /\ lastEvent.op = "tick"
    /\ displayTimer = 0
    /\ notification = Null
    /\ sent = 1

\* C17 as stated: while no record is there every derived view is an empty
\* sequence and the loading placeholder is shown; a record whose footprint
\* is zero is present and displayed.
C17_Original ==
    /\ selectedOptimizationModel = Null
         => /\ renderOptimizations = [loading |-> TRUE]
            /\ getModelOptimizations(selectedOptimizationModel) = <<>>
            /\ renderOverview.trends = <<>>
            /\ renderOverview.sources = <<>>
            /\ renderAnalytics.historical = <<>>
            /\ renderAnalytics.rows = <<>>
    /\ selectedOptimizationModel # Null /\ selectedOptimizationModel.co2 = 0
         => ~renderOptimizations.loading

\* C17 as amended: while no model is selected the list of recommendations is
\* empty and the Optimizations tab draws only the loading placeholder, and
\* the time series, the source breakdown, the scenario comparison and the
\* table, which read no selection, are drawn in full; a record whose
\* footprint is zero is present: selected, it is drawn with its card, its
\* recommendations (each saving 0.0) and its chart, and it has its table row.
C17_AbsentSelection ==
    /\ selectedOptimizationModel = Null
         => /\ renderOptimizations = [loading |-> TRUE]
            /\ getModelOptimizations(selectedOptimizationModel) = <<>>
            /\ Len(renderOverview.trends) = 6
            /\ Len(renderOverview.sources) = 3
            /\ Len(renderAnalytics.historical) = 4
            /\ Len(renderAnalytics.rows) = Len(models)
    /\ selectedOptimizationModel # Null /\ selectedOptimizationModel.co2 = 0
         => /\ ~renderOptimizations.loading
            /\ \E i \in 1..Len(models) :
                 /\ renderOptimizations.cards[i].highlighted
                 /\ renderOptimizations.cards[i].model.co2 = 0
            /\ Len(renderOptimizations.recommendations) > 0
            /\ \A j \in 1..Len(renderOptimizations.recommendations) :
                 renderOptimizations.recommendations[j].estimated = 0
            /\ renderOptimizations.chart[1].co2 = DZero
    /\ \A i \in 1..Len(models) :
         models[i].co2 = 0
           => /\ renderAnalytics.rows[i].name = models[i].name
              /\ renderAnalytics.rows[i].energy = 0
              /\ renderAnalytics.rows[i].efficiency = "Excellent"

\* C17 witness: a record with a footprint of zero is the selected model and
\* the Optimizations tab is shown.
C17_Witness ==
    /\ activeTab = "optimizations"
    /\ selectedOptimizationModel # Null
    /\ selectedOptimizationModel.co2 = 0
    /\ ~renderOptimizations.loading

\* the techniques of the four lists, as the catalog of App.js orders them
CatalogTechniques ==
    [NLP |-> <<"Model Pruning", "Quantization", "Knowledge Distillation",
               "Layer Freezing">>,
     Language |-> <<"Model Pruning", "Quantization", "Knowledge Distillation",
                    "Gradient Checkpointing">>,
     Vision |-> <<"Channel Pruning", "Quantization", "MobileNet Architecture",
                  "Input Resolution Reduction">>,
     Detection |-> <<"Model Pruning", "Quantization", "NAS Optimization",
                     "Anchor Optimization">>]

\* C18: for a model of category NLP, Language, Vision or Detection the
\* recommendations are that category's own list, four entries in the
\* catalog's order, whatever model was selected before; the four lists
\* differ from one another, and every entry's reduction is a percentage
\* between 0 and 100.
C18_CategoryLists ==
    /\ \A c \in KnownCategories :
         /\ Len(baseOptimizations[c]) = 4
         /\ [j \in 1..4 |-> baseOptimizations[c][j].technique] = CatalogTechniques[c]
         /\ \A j \in 1..4 :
              \E p \in 0..100 :
                 /\ baseOptimizations[c][j].reduction = IntToDigits(p) \o <<"%">>
                 /\ parseFloat(baseOptimizations[c][j].reduction) = DFromDecimal(p, 1)
         /\ \A d \in KnownCategories \ {c} :
              baseOptimizations[c] # baseOptimizations[d]
    /\ \A i \in 1..Len(models) :
         models[i].type \in KnownCategories
           => getModelOptimizations(models[i]) = baseOptimizations[models[i].type]
    /\ selectedOptimizationModel # Null
       /\ selectedOptimizationModel.type \in KnownCategories
         => [j \in 1..Len(Recommendations) |-> Recommendations[j].technique]
              = CatalogTechniques[selectedOptimizationModel.type]

\* C18 witness: the Vision model is selected right after a model of another
\* category and its four recommendations are shown.
C18_Witness ==
    /\ activeTab = "optimizations"
    /\ selectedOptimizationModel # Null
    /\ selectedOptimizationModel.type = "Vision"
    /\ lastEvent.op = "setSelectedOptimizationModel"
    /\ lastEvent.previous # selectedOptimizationModel.id
    /\ Len(Recommendations) = 4

\* C19: the effect sets selectedOptimizationModel, to the first model, only
\* while nothing is selected, and leaves a selected model as it is; once the
\* effect has run selectedOptimizationModel is one of the models, and a
\* selection is never followed by no selection.
C19_InitialSelection ==
    /\ [][lastEvent'.op = "effect"
            => IF selectedOptimizationModel = Null
               THEN /\ selectedOptimizationModel' = models[1]
                    /\ lastEvent'.set
               ELSE /\ selectedOptimizationModel' = selectedOptimizationModel
                    /\ ~lastEvent'.set]_vars
    /\ [][selectedOptimizationModel # Null
            => selectedOptimizationModel' # Null]_vars
    /\ [](lastEvent.op = "effect" \/ ~effectPending
            => selectedOptimizationModel # Null)
    /\ [](selectedOptimizationModel # Null
            => \E i \in 1..Len(models) : selectedOptimizationModel = models[i])

\* C19 witness: the effect ran after the user selected ResNet-50 and left
\* that selection.
C19_Witness ==
    /\ lastEvent.op = "effect"
    /\ ~lastEvent.set
    /\ selectedOptimizationModel # Null
    /\ selectedOptimizationModel.name = "ResNet-50"
    /\ ~effectPending

\* C20: a click on a tab changes activeTab only, Analyze changes
\* selectedModel only, a click on a model's card of the Optimizations tab
\* changes selectedOptimizationModel only, and no step changes models.
C20_IndependentState ==
    /\ [][lastEvent'.op = "setActiveTab"
            => /\ activeTab' = lastEvent'.tab
               /\ UNCHANGED <<selectedModel, selectedOptimizationModel, models>>]_vars
    /\ [][lastEvent'.op = "setSelectedModel"
            => /\ selectedModel' # Null
               /\ selectedModel'.id = lastEvent'.id
               /\ UNCHANGED <<activeTab, selectedOptimizationModel, models>>]_vars
    /\ [][lastEvent'.op = "setSelectedOptimizationModel"
            => /\ selectedOptimizationModel' # Null
               /\ selectedOptimizationModel'.id = lastEvent'.id
               /\ UNCHANGED <<activeTab, selectedModel, models>>]_vars
    /\ [][models' = models]_vars
    /\ [](models = InitialModels)

\* C20 witness: Analyze was clicked for YOLO-v8 while GPT-3.5 is the model
\* selected for optimization.
C20_Witness ==
    /\ lastEvent.op = "setSelectedModel"
    /\ activeTab = "models"
    /\ selectedModel # Null
    /\ selectedModel.name = "YOLO-v8"
    /\ selectedOptimizationModel # Null
    /\ selectedOptimizationModel.name = "GPT-3.5"

=============================================================================
